---- MODULE Spec2Model ----
(***************************************************************************)
(* To-do backend (todo_backend/src/api/main.py): five request handlers     *)
(* over one SQLite table `tasks`.                                          *)
(*                                                                         *)
(* Every handler opens its own connection (_get_conn) and runs on its own  *)
(* worker thread, so handlers interleave statement by statement.  The      *)
(* connections use the sqlite3 module's default transaction control:       *)
(*   - a SELECT runs outside any transaction and reads the committed       *)
(*     table;                                                              *)
(*   - an INSERT/UPDATE/DELETE implicitly begins a transaction, which      *)
(*     takes the database write lock; its changes are private to the       *)
(*     connection until conn.commit() publishes them and drops the lock;   *)
(*   - a write attempted while another connection holds the write lock     *)
(*     waits, and raises OperationalError (database is locked) when the    *)
(*     busy timeout runs out.                                              *)
(*                                                                         *)
(* Timestamps are whole seconds: _utc_now_iso truncates the clock to the   *)
(* second and prints it in a fixed-width ISO-8601 form, whose string order *)
(* is the order of the seconds; the model keeps the number of seconds.     *)
(***************************************************************************)
EXTENDS Integers, Sequences, FiniteSets, TLC

\* ---------------------------------------------------------------- bounds
NumReq == 2          \* requests served, each on its own worker thread
MaxSeq == 2          \* rows ever inserted, earlier runs of the service included
MaxClock == 2        \* latest clock reading, in ticks
TicksPerSecond == 2  \* clock ticks in one second (sub-second resolution)

Req == 1 .. NumReq
PathIds == 1 .. MaxSeq   \* an id no INSERT has assigned yet has no row

\* SQL NULL / Python None in the description column
NULL == "NULL"

\* request bodies: TaskCreate may omit `completed`, TaskUpdate may not
CreatePayloads ==
    { [title |-> "a", description |-> NULL],
      [title |-> "a", description |-> NULL, completed |-> TRUE] }
UpdatePayloads ==
    { [title |-> "c", description |-> "d", completed |-> TRUE] }

NoPayload == [title |-> "", description |-> NULL, completed |-> FALSE]
NoResp == [status |-> 0, error |-> "", wrapped |-> FALSE, body |-> <<>>]
NoTxn == [owner |-> 0, rows |-> {}, seq |-> 0]

VARIABLES
    tasks,      \* committed rows of table tasks
    seq,        \* committed sqlite_sequence value of table tasks
    wtxn,       \* the open write transaction: its owner and private image
    clock,      \* wall clock at its last reading, in ticks
    pc,         \* per request: the handler's position
    kind,       \* per request: which handler runs
    pid,        \* per request: the path parameter id
    payload,    \* per request: the validated request body
    now,        \* per request: the handler's local `now`
    lastrowid,  \* per request: cur.lastrowid of the INSERT
    resp,       \* per request: the response produced
    assigned,   \* history: every id an INSERT has assigned
    deleted     \* history: every id a Delete has removed or answered 204 for

vars == <<tasks, seq, wtxn, clock, pc, kind, pid, payload, now, lastrowid,
          resp, assigned, deleted>>

\* ---------------------------------------------------------------- helpers
\* datetime.now(timezone.utc).replace(microsecond=0): truncate to the second
_utc_now_iso(c) == c \div TicksPerSecond

\* pydantic default of TaskCreate.completed
TaskCreate(p) ==
    [title |-> p.title, description |-> p.description,
     completed |-> IF "completed" \in DOMAIN p THEN p.completed ELSE FALSE]

\* `1 if completed else 0`
BoolToInt(b) == IF b THEN 1 ELSE 0

IdsOf(rows) == { t.id : t \in rows }

\* SELECT * FROM tasks WHERE id = ? : the matching rows (fetchone gives
\* one of them, or None when the set is empty)
SelectById(rows, i) == { t \in rows : t.id = i }

MaxRowid(rows) ==
    IF rows = {} THEN 0
    ELSE CHOOSE m \in IdsOf(rows) : \A j \in IdsOf(rows) : j <= m

\* INTEGER PRIMARY KEY without AUTOINCREMENT: one more than the largest rowid
NextRowidNoAutoincrement(rows, s) == MaxRowid(rows) + 1

\* INTEGER PRIMARY KEY AUTOINCREMENT: one more than the largest rowid the
\* table has ever held (sqlite_sequence)
NextRowid(rows, s) ==
    (IF s >= MaxRowid(rows) THEN s ELSE MaxRowid(rows)) + 1

\* INSERT INTO tasks (title, description, completed, created_at, updated_at)
InsertRow(rows, s, p, n) ==
    rows \cup { [id |-> NextRowid(rows, s),
                 title |-> p.title,
                 description |-> p.description,
                 completed |-> BoolToInt(p.completed),
                 created_at |-> n,
                 updated_at |-> n] }

\* UPDATE tasks SET title, description, completed, updated_at WHERE id = ?
UpdateReplace(rows, i, p, n) ==
    { IF t.id = i
      THEN [t EXCEPT !.title = p.title,
                     !.description = p.description,
                     !.completed = BoolToInt(p.completed),
                     !.updated_at = n]
      ELSE t : t \in rows }

\* an UPDATE of the completion flag that rewrites the title as well
UpdateCompletionClobber(rows, i, c, n) ==
    { IF t.id = i
      THEN [t EXCEPT !.title = "", !.completed = BoolToInt(c),
                     !.updated_at = n]
      ELSE t : t \in rows }

\* UPDATE tasks SET completed = ?, updated_at = ? WHERE id = ?
UpdateCompletion(rows, i, c, n) ==
    { IF t.id = i
      THEN [t EXCEPT !.completed = BoolToInt(c), !.updated_at = n]
      ELSE t : t \in rows }

\* DELETE FROM tasks WHERE id = ?
DeleteRow(rows, i) == { t \in rows : t.id # i }

\* _row_to_task: completed INTEGER becomes bool
_row_to_task(row) ==
    [id |-> row.id,
     title |-> row.title,
     description |-> row.description,
     completed |-> (row.completed # 0),
     created_at |-> row.created_at,
     updated_at |-> row.updated_at]

RECURSIVE OrderByIdAsc(_)
OrderByIdAsc(rows) ==
    IF rows = {} THEN <<>>
    ELSE LET t == CHOOSE x \in rows : \A y \in rows : y.id >= x.id
         IN  <<t>> \o OrderByIdAsc(rows \ {t})

\* SELECT * FROM tasks ORDER BY id DESC
RECURSIVE OrderByIdDesc(_)
OrderByIdDesc(rows) ==
    IF rows = {} THEN <<>>
    ELSE LET t == CHOOSE x \in rows : \A y \in rows : y.id <= x.id
         IN  <<t>> \o OrderByIdDesc(rows \ {t})

\* [_row_to_task(r) for r in rows]
MapRowToTask(s) == [k \in 1 .. Len(s) |-> _row_to_task(s[k])]

\* ---------------------------------------------------------------- Init
\* The database file outlives the process (CREATE TABLE IF NOT EXISTS): at
\* start the table holds what earlier runs left, here tasks created by
\* POST {title: "a"} at second 0, some of them deleted again, and
\* sqlite_sequence remembers the largest id ever assigned.  The earlier runs
\* leave room for one more INSERT within MaxSeq.
LeftByEarlierRun(ids) ==
    { [id |-> i, title |-> "a", description |-> NULL, completed |-> 0,
       created_at |-> 0, updated_at |-> 0] : i \in ids }

Init ==
    /\ \E s \in 0 .. (MaxSeq - 1) : \E ids \in SUBSET (1 .. s) :
          /\ seq = s
          /\ tasks = LeftByEarlierRun(ids)
          /\ assigned = 1 .. s
          /\ deleted = (1 .. s) \ ids
    /\ wtxn = NoTxn
    /\ clock = 0
    /\ pc = [r \in Req |-> "idle"]
    /\ kind = [r \in Req |-> "none"]
    /\ pid = [r \in Req |-> 0]
    /\ payload = [r \in Req |-> NoPayload]
    /\ now = [r \in Req |-> 0]
    /\ lastrowid = [r \in Req |-> 0]
    /\ resp = [r \in Req |-> NoResp]

Db == <<tasks, seq, wtxn>>
Hist == <<assigned, deleted>>

\* ---------------------------------------------------------------- clock
\* datetime.now(): the wall clock has moved on, by any amount and never
\* backwards, since it was last read; the handler keeps the reading
\* truncated to the second
ReadClock(r, c) ==
    /\ c \in clock .. MaxClock
    /\ clock' = c
    /\ now' = [now EXCEPT ![r] = _utc_now_iso(c)]

\* ---------------------------------------------------------------- responses
Ok(code, wrap, tasklist) ==
    [status |-> code, error |-> "", wrapped |-> wrap, body |-> tasklist]

\* raise HTTPException(status_code=404, detail="Task not found")
NotFound == [status |-> 404, error |-> "Task not found", wrapped |-> FALSE,
             body |-> <<>>]

\* `assert row is not None` fails: unhandled AssertionError, a 500
AssertionFailed == [status |-> 500, error |-> "AssertionError",
                    wrapped |-> FALSE, body |-> <<>>]

\* conn.execute raises sqlite3.OperationalError (database is locked): a 500
DatabaseLocked == [status |-> 500, error |-> "OperationalError",
                   wrapped |-> FALSE, body |-> <<>>]

\* the handler returns or raises; `finally: conn.close()`; its locals die
Finish(r, response) ==
    /\ pc' = [pc EXCEPT ![r] = "done"]
    /\ resp' = [resp EXCEPT ![r] = response]
    /\ payload' = [payload EXCEPT ![r] = NoPayload]
    /\ now' = [now EXCEPT ![r] = 0]
    /\ lastrowid' = [lastrowid EXCEPT ![r] = 0]

\* the handler moves on to its next statement
Goto(r, p) ==
    /\ pc' = [pc EXCEPT ![r] = p]
    /\ UNCHANGED <<resp, payload, now>>

\* request number r arrives (requests are numbered in order of arrival) and
\* its handler starts on a worker thread of its own
Begin(r, k, i, p, first) ==
    /\ pc[r] = "idle"
    /\ \A q \in Req : q < r => pc[q] # "idle"
    /\ pc' = [pc EXCEPT ![r] = first]
    /\ kind' = [kind EXCEPT ![r] = k]
    /\ pid' = [pid EXCEPT ![r] = i]
    /\ payload' = [payload EXCEPT ![r] = p]
    /\ UNCHANGED lastrowid

At(r, k, p) == pc[r] = p /\ kind[r] = k

\* `if existing is None: raise ...` without the raise
CheckOutcomeNoRaise(existing) == "write"

\* `if existing is None: raise HTTPException(404)`: where the handler goes
CheckOutcome(existing) == IF existing = {} THEN "notfound" ELSE "write"

\* existing = SELECT ... WHERE id = ?; if existing is None: raise 404
ExistenceCheck(r, k) ==
    /\ At(r, k, "check")
    /\ IF CheckOutcome(SelectById(tasks, pid[r])) = "notfound"
       THEN Finish(r, NotFound)
       ELSE Goto(r, "write") /\ UNCHANGED lastrowid
    /\ UNCHANGED <<Db, Hist, clock, kind, pid>>

\* conn.execute of an INSERT/UPDATE/DELETE: begin the implicit transaction
\* and change the connection's private image, or fail on a held write lock
Execute(r, newrows, newseq, rowid) ==
    \/ /\ wtxn.owner = 0
       /\ wtxn' = [owner |-> r, rows |-> newrows, seq |-> newseq]
       /\ Goto(r, "commit")
       /\ lastrowid' = [lastrowid EXCEPT ![r] = rowid]
       /\ UNCHANGED <<tasks, seq>>
    \/ /\ wtxn.owner # 0
       /\ Finish(r, DatabaseLocked)
       /\ UNCHANGED <<tasks, seq, wtxn>>

\* conn.commit(): publish the private image and drop the write lock
Commit(r, k) ==
    /\ At(r, k, "commit")
    /\ wtxn.owner = r
    /\ tasks' = wtxn.rows
    /\ seq' = wtxn.seq
    /\ wtxn' = NoTxn

\* row = SELECT * FROM tasks WHERE id = ?; assert row is not None;
\* return _row_to_task(row)
ReadBack(r, k, i, code, wrap) ==
    /\ At(r, k, "reselect")
    /\ LET row == SelectById(tasks, i)
       IN  IF row = {}
           THEN Finish(r, AssertionFailed)
           ELSE Finish(r, Ok(code, wrap,
                             <<_row_to_task(CHOOSE t \in row : TRUE)>>))
    /\ UNCHANGED <<Db, Hist, clock, kind, pid>>

\* ---------------------------------------------------------------- list_tasks
ListTasks(r) ==
    /\ Begin(r, "list", 0, NoPayload, "done")
    /\ resp' = [resp EXCEPT
                  ![r] = Ok(200, TRUE, MapRowToTask(OrderByIdDesc(tasks)))]
    /\ UNCHANGED <<Db, Hist, clock, now>>

\* ---------------------------------------------------------------- create_task
CreateStart(r, p) ==
    /\ Begin(r, "create", 0, TaskCreate(p), "insert")
    /\ \E t \in 0 .. MaxClock : ReadClock(r, t)
    /\ UNCHANGED <<Db, Hist, resp>>

CreateInsert(r) ==
    /\ At(r, "create", "insert")
    /\ NextRowid(tasks, seq) <= MaxSeq
    /\ Execute(r, InsertRow(tasks, seq, payload[r], now[r]),
               NextRowid(tasks, seq), NextRowid(tasks, seq))
    /\ assigned' = IF wtxn.owner = 0
                   THEN assigned \cup {NextRowid(tasks, seq)}
                   ELSE assigned
    /\ UNCHANGED <<deleted, clock, kind, pid>>

CreateCommit(r) ==
    /\ Commit(r, "create")
    /\ Goto(r, "reselect")
    /\ UNCHANGED <<Hist, clock, kind, pid, lastrowid>>

CreateReadBack(r) == ReadBack(r, "create", lastrowid[r], 201, FALSE)

\* ---------------------------------------------------------------- replace_task
ReplaceStart(r, i, p) ==
    /\ Begin(r, "replace", i, p, "check")
    /\ \E t \in 0 .. MaxClock : ReadClock(r, t)
    /\ UNCHANGED <<Db, Hist, resp>>

ReplaceCheck(r) == ExistenceCheck(r, "replace")

ReplaceUpdate(r) ==
    /\ At(r, "replace", "write")
    /\ Execute(r, UpdateReplace(tasks, pid[r], payload[r], now[r]), seq,
               lastrowid[r])
    /\ UNCHANGED <<Hist, clock, kind, pid>>

ReplaceCommit(r) ==
    /\ Commit(r, "replace")
    /\ Goto(r, "reselect")
    /\ UNCHANGED <<Hist, clock, kind, pid, lastrowid>>

ReplaceReadBack(r) == ReadBack(r, "replace", pid[r], 200, FALSE)

\* ---------------------------------------------------------------- set_task_completion
CompletionStart(r, i, c) ==
    /\ Begin(r, "complete", i, [NoPayload EXCEPT !.completed = c], "check")
    /\ \E t \in 0 .. MaxClock : ReadClock(r, t)
    /\ UNCHANGED <<Db, Hist, resp>>

CompletionCheck(r) == ExistenceCheck(r, "complete")

CompletionUpdate(r) ==
    /\ At(r, "complete", "write")
    /\ Execute(r, UpdateCompletion(tasks, pid[r], payload[r].completed,
                                   now[r]), seq, lastrowid[r])
    /\ UNCHANGED <<Hist, clock, kind, pid>>

CompletionCommit(r) ==
    /\ Commit(r, "complete")
    /\ Goto(r, "reselect")
    /\ UNCHANGED <<Hist, clock, kind, pid, lastrowid>>

CompletionReadBack(r) == ReadBack(r, "complete", pid[r], 200, TRUE)

\* ---------------------------------------------------------------- delete_task
DeleteStart(r, i) ==
    /\ Begin(r, "delete", i, NoPayload, "check")
    /\ UNCHANGED <<Db, Hist, clock, now, resp>>

DeleteCheck(r) == ExistenceCheck(r, "delete")

DeleteExecute(r) ==
    /\ At(r, "delete", "write")
    /\ Execute(r, DeleteRow(tasks, pid[r]), seq, lastrowid[r])
    /\ UNCHANGED <<Hist, clock, kind, pid>>

\* conn.commit(); return Response(status_code=204)
DeleteCommit(r) ==
    /\ Commit(r, "delete")
    /\ Finish(r, Ok(204, FALSE, <<>>))
    /\ deleted' = deleted \cup {pid[r]}
    /\ UNCHANGED <<assigned, clock, kind, pid>>

Next ==
    \/ \E r \in Req : ListTasks(r)
    \/ \E r \in Req, p \in CreatePayloads : CreateStart(r, p)
    \/ \E r \in Req : CreateInsert(r)
    \/ \E r \in Req : CreateCommit(r)
    \/ \E r \in Req : CreateReadBack(r)
    \/ \E r \in Req, i \in PathIds, p \in UpdatePayloads : ReplaceStart(r, i, p)
    \/ \E r \in Req : ReplaceCheck(r)
    \/ \E r \in Req : ReplaceUpdate(r)
    \/ \E r \in Req : ReplaceCommit(r)
    \/ \E r \in Req : ReplaceReadBack(r)
    \/ \E r \in Req, i \in PathIds, c \in BOOLEAN : CompletionStart(r, i, c)
    \/ \E r \in Req : CompletionCheck(r)
    \/ \E r \in Req : CompletionUpdate(r)
    \/ \E r \in Req : CompletionCommit(r)
    \/ \E r \in Req : CompletionReadBack(r)
    \/ \E r \in Req, i \in PathIds : DeleteStart(r, i)
    \/ \E r \in Req : DeleteCheck(r)
    \/ \E r \in Req : DeleteExecute(r)
    \/ \E r \in Req : DeleteCommit(r)

Spec == Init /\ [][Next]_vars

TypeOK ==
    /\ \A t \in tasks : t.completed \in {0, 1}
    /\ wtxn.owner \in 0 .. NumReq
    /\ clock \in 0 .. MaxClock

\* ---------------------------------------------------------------- properties
Mutators == {"replace", "complete", "delete"}

Succeeded(r, k, code) ==
    /\ At(r, k, "done")
    /\ resp[r].status = code

\* C1: for Replace, Set Completion and Delete the existence check and the
\* mutation are one atomic step: a handler that has passed its check and has
\* yet to run its UPDATE/DELETE still finds the row it checked for, whatever
\* other requests on the same id do in between.
CheckThenMutateAtomic ==
    \A r \in Req :
        (pc[r] = "write" /\ kind[r] \in Mutators)
            => SelectById(tasks, pid[r]) # {}

\* C2: every stored task has updated_at >= created_at, in every reachable
\* state, under any interleaving of the requests with a non-decreasing clock.
UpdatedNotBeforeCreated ==
    \A t \in tasks : t.updated_at >= t.created_at

\* C3: Replace, Set Completion or Delete whose existence check finds no row
\* for the id answers 404 not-found and leaves the store (rows, sequence,
\* open transaction) exactly as it was.
NotFoundLeavesStoreUnchanged ==
    [][\A r \in Req :
          (/\ pc[r] = "check"
           /\ kind[r] \in Mutators
           /\ pc'[r] # "check"
           /\ SelectById(tasks, pid[r]) = {})
          => (/\ pc'[r] = "done"
              /\ resp'[r] = NotFound
              /\ tasks' = tasks
              /\ seq' = seq
              /\ wtxn' = wtxn)]_vars

NotFoundWitness ==
    \E r1, r2 \in Req :
        /\ Succeeded(r1, "replace", 404)
        /\ Succeeded(r2, "delete", 404)
        /\ pid[r1] = pid[r2]
        /\ tasks # {}
        /\ SelectById(tasks, pid[r1]) = {}
        /\ wtxn = NoTxn

\* C4: task ids are unique and greater than zero; every INSERT assigns an id
\* strictly greater than every id assigned before it, deleted ones included;
\* ids enter the table only through a Create's commit and leave it only
\* through a Delete's commit, so no operation changes the id of a task.
IdsUniqueAndNeverReused ==
    /\ [](\A t \in tasks : t.id > 0)
    /\ [](\A t1, t2 \in tasks : t1.id = t2.id => t1 = t2)
    /\ [][/\ \A r \in Req :
               (At(r, "create", "insert") /\ pc'[r] = "commit")
               => (/\ lastrowid'[r] > 0
                   /\ \A j \in assigned : lastrowid'[r] > j
                   /\ lastrowid'[r] \in IdsOf(wtxn'.rows))
          /\ IdsOf(tasks') \ IdsOf(tasks)
               \subseteq { lastrowid[r] : r \in { q \in Req :
                                             At(q, "create", "commit") } }
          /\ IdsOf(tasks) \ IdsOf(tasks')
               \subseteq { pid[r] : r \in { q \in Req :
                                       At(q, "delete", "commit") } }]_vars

IdAfterDeleteWitness ==
    \E r1, r2 \in Req :
        /\ Succeeded(r1, "delete", 204)
        /\ pid[r1] = 1
        /\ tasks = {}
        /\ At(r2, "create", "commit")
        /\ lastrowid[r2] = 2

\* C5: a Replace or Set Completion leaves the task's id and created_at
\* unchanged and never lowers its updated_at, also when several such requests
\* on the same id overlap: no step takes a stored task's updated_at backwards.
UpdatedAtNeverDecreases ==
    [][\A t \in tasks : \A u \in tasks' :
          u.id = t.id
          => (u.created_at = t.created_at /\ u.updated_at >= t.updated_at)]_vars

\* C6: Set Completion changes only completed and updated_at of the task with
\* its id: that task keeps id, title, description and created_at, every other
\* task is untouched and no task is added or removed; nothing is visible in
\* the table before the commit.
SetCompletionFrame ==
    [][\A r \in Req :
          /\ (At(r, "complete", "write") /\ pc'[r] # "write")
             => tasks' = tasks
          /\ (At(r, "complete", "commit") /\ pc'[r] = "reselect")
             => /\ IdsOf(tasks') = IdsOf(tasks)
                /\ \A t \in tasks : \E u \in tasks' :
                      /\ u.id = t.id
                      /\ u.title = t.title
                      /\ u.description = t.description
                      /\ u.created_at = t.created_at
                      /\ IF t.id = pid[r]
                         THEN /\ u.completed = BoolToInt(payload[r].completed)
                              /\ u.updated_at = now[r]
                         ELSE u = t]_vars

SetCompletionWitness ==
    \E r \in Req :
        /\ Succeeded(r, "complete", 200)
        /\ resp[r].body[1].title = "c"
        /\ resp[r].body[1].description = "d"
        /\ resp[r].body[1].completed = FALSE

\* C7: Delete succeeds at most once per id and is permanent: a Delete answers
\* 204 only for an id no Delete has answered 204 for before, and no List
\* result contains an id a Delete has answered 204 for.
DeleteSucceedsOnce ==
    [][\A r \in Req :
          /\ (At(r, "delete", "commit") /\ pc'[r] = "done"
                 /\ resp'[r].status = 204)
             => pid[r] \notin deleted
          /\ (pc[r] = "idle" /\ kind'[r] = "list")
             => \A k \in 1 .. Len(resp'[r].body) :
                    resp'[r].body[k].id \notin deleted]_vars

\* C8: List returns exactly the tasks in the store, each once, in strictly
\* descending id order, and changes nothing in the store.
ListReturnsAllDescending ==
    [][\A r \in Req :
          (pc[r] = "idle" /\ kind'[r] = "list")
          => LET b == resp'[r].body
             IN  /\ resp'[r].status = 200
                 /\ Len(b) = Cardinality(tasks)
                 /\ { b[k] : k \in 1 .. Len(b) }
                       = { _row_to_task(t) : t \in tasks }
                 /\ \A k \in 1 .. (Len(b) - 1) : b[k].id > b[k + 1].id
                 /\ tasks' = tasks
                 /\ seq' = seq
                 /\ wtxn' = wtxn]_vars

ListWitness ==
    \E r \in Req :
        /\ Succeeded(r, "list", 200)
        /\ Len(resp[r].body) = 2
        /\ resp[r].body[1].id = 2
        /\ resp[r].body[2].id = 1
        /\ resp[r].body[1].completed
        /\ ~resp[r].body[2].completed

\* C9: a successful Create adds exactly one row and returns the new task as
\* it was created: created_at = updated_at = the clock value the Create read,
\* the title and description of the request, completed as requested (false
\* when omitted), under any interleaving with other requests.
CreateReturnsCreatedTask ==
    [][\A r \in Req :
          /\ (At(r, "create", "commit") /\ pc'[r] = "reselect")
             => /\ tasks \subseteq tasks'
                /\ Cardinality(tasks') = Cardinality(tasks) + 1
          /\ (At(r, "create", "reselect") /\ pc'[r] = "done"
                 /\ resp'[r].status = 201)
             => LET t == resp'[r].body[1]
                IN  /\ t.id = lastrowid[r]
                    /\ t.created_at = now[r]
                    /\ t.updated_at = now[r]
                    /\ t.title = payload[r].title
                    /\ t.description = payload[r].description
                    /\ t.completed = payload[r].completed]_vars

\* C10: the read-back assertions never fail: Create, Replace and Set
\* Completion never end in an AssertionError, under any interleaving with
\* concurrent Deletes.
ReadBackAssertionHolds ==
    \A r \in Req : resp[r].error # "AssertionError"

====
